---------------------------- MODULE Spec2Model ----------------------------
(***************************************************************************)
(* Danbooru-Analytics server (src/server.py): the five query tools over    *)
(* the process-wide DataFrame df, the inline entity classifier of the two  *)
(* ranking loops, and the pyplot state machine the plotting tools share.   *)
(*                                                                         *)
(* A Python str is a sequence of one-character strings; a missing          *)
(* tag_string cell (NaN) has na = TRUE.  A timestamp is a record y, m, d, h *)
(* in UTC (line 25 converts created_at with utc=True).                     *)
(***************************************************************************)
EXTENDS Integers, Sequences, FiniteSets, TLC

VARIABLES df, figs, pc, call, local, result, written, probe, verdict

vars == <<df, figs, pc, call, local, result, written, probe, verdict>>

(***************************************************************************)
(* Bounds of the model.                                                    *)
(***************************************************************************)
MaxRecords == 3

MaxCallers == 2

ProbeLen == 4

(***************************************************************************)
(* Configuration, lines 30-53.                                             *)
(***************************************************************************)
SPECIFIC_BANS ==
    { <<"s","t","a","r","_","(","s","y","m","b","o","l",")">>, <<"s","t","a","r","_","(","s","k","y",")">>, <<"p","o","m","_","p","o","m","_","(","c","l","o","t","h","e","s",")">>, <<"s","h","r","u","g","_","(","c","l","o","t","h","i","n","g",")">>,
      <<"p","o","k","e","_","b","a","l","l","_","(","b","a","s","i","c",")">>, <<"v","i","s","i","o","n","_","(","g","e","n","s","h","i","n","_","i","m","p","a","c","t",")">>, <<"s","e","n","s","e","i","_","(","b","l","u","e","_","a","r","c","h","i","v","e",")">>,
      <<"i","d","o","l","m","a","s","t","e","r","_","(","c","l","a","s","s","i","c",")">>, <<"m","a","h","o","u","_","s","h","o","u","j","o","_","m","a","d","o","k","a","_","m","a","g","i","c","a","_","(","a","n","i","m","e",")">>,
      <<"a","d","m","i","r","a","l","_","(","k","a","n","c","o","l","l","e",")">>, <<"p","r","o","d","u","c","e","r","_","(","i","d","o","l","m","a","s","t","e","r",")">>, <<"c","o","m","m","a","n","d","e","r","_","(","a","z","u","r","_","l","a","n","e",")">>,
      <<"d","o","c","t","o","r","_","(","a","r","k","n","i","g","h","t","s",")">>, <<"t","r","a","v","e","l","e","r","_","(","g","e","n","s","h","i","n","_","i","m","p","a","c","t",")">>, <<"t","r","a","i","n","e","r","_","(","p","o","k","e","m","o","n",")">>,
      <<"s","u","m","m","o","n","e","r","_","(","f","i","r","e","_","e","m","b","l","e","m",")">>, <<"g","u","d","a","k","o","_","(","f","a","t","e","/","g","r","a","n","d","_","o","r","d","e","r",")">>, <<"u","n","k","n","o","w","n","_","(","s","e","r","i","e","s",")">>,
      <<"c","h","e","c","k","_","c","o","m","m","e","n","t","a","r","y","_","(","r","e","q","u","e","s","t",")">>, <<"t","r","a","n","s","l","a","t","i","o","n","_","(","r","e","q","u","e","s","t",")">>, <<"o","r","i","g","i","n","a","l","_","(","c","h","a","r","a","c","t","e","r",")">>,
      <<"s","p","o","t","_","t","h","e","_","d","i","f","f","e","r","e","n","c","e">>, <<"c","o","m","i","c">>, <<"m","o","n","o","c","h","r","o","m","e">>, <<"h","e","a","r","t">>, <<"e","x","c","l","a","m","a","t","i","o","n","_","p","o","i","n","t">> }

BAD_SUFFIXES ==
    { <<"_","(","s","e","r","i","e","s",")">>, <<"_","(","m","e","d","i","u","m",")">>, <<"_","(","s","t","y","l","e",")">>, <<"_","(","s","o","u","r","c","e",")">>,
      <<"_","(","c","o","s","p","l","a","y",")">>, <<"_","(","o","b","j","e","c","t",")">>, <<"_","(","g","r","o","u","p",")">>, <<"_","(","p","r","o","d","u","c","t","i","o","n",")">>,
      <<"_","(","c","r","e","a","t","u","r","e",")">>, <<"_","(","g","a","m","e",")">>, <<"_","(","r","e","q","u","e","s","t",")">>, <<"_","(","e","v","e","n","t",")">>,
      <<"_","(","a","r","t","_","s","t","y","l","e",")">>, <<"_","(","a","r","t","i","s","t",")">>, <<"_","(","l","o","r","e",")">>, <<"_","(","m","e","t","a",")">>,
      <<"_","(","c","o","s","t","u","m","e",")">>, <<"_","(","p","a","r","o","d","y",")">> }

VIPS ==
    { <<"h","a","t","s","u","n","e","_","m","i","k","u">>, <<"h","a","k","u","r","e","i","_","r","e","i","m","u">>, <<"k","i","r","i","s","a","m","e","_","m","a","r","i","s","a">>,
      <<"r","e","m","i","l","i","a","_","s","c","a","r","l","e","t">>, <<"f","l","a","n","d","r","e","_","s","c","a","r","l","e","t">>, <<"k","o","c","h","i","y","a","_","s","a","n","a","e">>,
      <<"i","z","a","y","o","i","_","s","a","k","u","y","a">>, <<"k","o","n","p","a","k","u","_","y","o","u","m","u">>, <<"c","i","r","n","o">>, <<"k","a","g","a","m","i","n","e","_","r","i","n">> }

\* YearInput.year: Field(ge=2005, le=2025)
YearMin == 2005

YearMax == 2025

\* counts.most_common(5000) in get_top_waifus_by_year
TopScanCeiling == 5000

\* len(top_chars) == 10
TopK == 10

\* counts.most_common(2000) in analyze_tag_driver
DriverScanCeiling == 2000

\* len(top_drivers) == 5
DriverK == 5

\* monthly.iloc[-1] > 20
ActiveThreshold == 20

\* TagInput.tag, CompareInput.char1, char2: Field(min_length=2)
TagMinLength == 2

(***************************************************************************)
(* Python str operations used by the tools.                                *)
(***************************************************************************)
\* a cell of the tag_string column: a str, or missing (NaN)
Str(s) == [na |-> FALSE, s |-> s]

NA == [na |-> TRUE, s |-> <<>>]

\* no local variable assigned yet / no value returned yet
NoLocals == [unset |-> TRUE]

NoResult == [kind |-> "running"]

\* s.endswith(suffix)
EndsWith(s, suffix) ==
    /\ Len(suffix) <= Len(s)
    /\ SubSeq(s, Len(s) - Len(suffix) + 1, Len(s)) = suffix

\* s.endswith(tuple_of_suffixes)
EndsWithAny(s, suffixes) == \E x \in suffixes : EndsWith(s, x)

\* sub in s  /  Series.str.contains(sub, regex=False) on one value
Contains(s, sub) ==
    \E i \in 0..(Len(s) - Len(sub)) : SubSeq(s, i + 1, i + Len(sub)) = sub

\* Series.str.contains(sub, regex=False, na=False) on one cell
StrContains(cell, sub) == IF cell.na THEN FALSE ELSE Contains(cell.s, sub)

\* the members of a finite set of integers, ascending
Ascending(S) ==
    [k \in 1..Cardinality(S) |->
        CHOOSE x \in S : Cardinality({z \in S : z < x}) = k - 1]

\* s.replace(old, new) for one-character old and new
Replace(s, old, new) == [i \in 1..Len(s) |-> IF s[i] = old THEN new ELSE s[i]]

\* s.replace(old, '') for one-character old
Remove(s, old) == SelectSeq(s, LAMBDA c : c # old)

\* " ".join(strings)
RECURSIVE Join(_)
Join(strs) ==
    IF strs = <<>> THEN <<>>
    ELSE IF Len(strs) = 1 THEN strs[1]
    ELSE strs[1] \o <<" ">> \o Join(Tail(strs))

\* s.split(): the maximal runs of non-blank characters, in order
Split(s) ==
    LET starts == Ascending({i \in 1..Len(s) :
                               s[i] # " " /\ (i = 1 \/ s[i - 1] = " ")})
        stops == Ascending({i \in 1..Len(s) :
                              s[i] # " " /\ (i = Len(s) \/ s[i + 1] = " ")})
    IN [k \in 1..Len(starts) |-> SubSeq(s, starts[k], stops[k])]

Lower == <<"a","b","c","d","e","f","g","h","i","j","k","l","m",
           "n","o","p","q","r","s","t","u","v","w","x","y","z">>

Upper == <<"A","B","C","D","E","F","G","H","I","J","K","L","M",
           "N","O","P","Q","R","S","T","U","V","W","X","Y","Z">>

IsLetter(c) == \E i \in 1..26 : c = Lower[i] \/ c = Upper[i]

ToUpper(c) == IF \E i \in 1..26 : c = Lower[i]
              THEN Upper[CHOOSE i \in 1..26 : c = Lower[i]] ELSE c

ToLower(c) == IF \E i \in 1..26 : c = Upper[i]
              THEN Lower[CHOOSE i \in 1..26 : c = Upper[i]] ELSE c

\* s.title(): a letter that follows a non-letter is upper-cased, any other lowered
Title(s) ==
    [i \in 1..Len(s) |->
        IF i = 1 \/ ~IsLetter(s[i - 1]) THEN ToUpper(s[i]) ELSE ToLower(s[i])]

\* str(n) for n >= 0
RECURSIVE DecStr(_)
DecStr(n) ==
    LET d == <<"0","1","2","3","4","5","6","7","8","9">>[(n % 10) + 1]
    IN IF n < 10 THEN <<d>> ELSE Append(DecStr(n \div 10), d)

\* t.replace('_', ' ').title().replace('(', '[').replace(')', ']'), lines 150, 299
CleanName(t) == Replace(Replace(Title(Replace(t, "_", " ")), "(", "["), ")", "]")

\* t.replace('_', ' ').title().replace('(', '').replace(')', ''), line 283
FmtName(t) == Remove(Remove(Title(Replace(t, "_", " ")), "("), ")")

\* get_safe_filename(query_str, prefix), lines 82-94
get_safe_filename(query_str, prefix) ==
    [prefix |-> prefix,
     safe_tag |-> Replace(Replace(Replace(query_str, ":", "_"), "/", "_"), " ", "_")]

(***************************************************************************)
(* The inline entity classifier of the two ranking loops.                  *)
(***************************************************************************)
\* TopAccepts without the suffix test of line 146
TopAcceptsNoSuffix(tag) ==
    IF tag \in SPECIFIC_BANS THEN FALSE
    ELSE tag \in VIPS \/ (Contains(tag, <<"_","(">>) /\ EndsWith(tag, <<")">>))

\* lines 141-147: TRUE iff the loop body appends tag to top_chars
TopAccepts(tag) ==
    IF tag \in SPECIFIC_BANS THEN FALSE
    ELSE LET is_vip == tag \in VIPS
             has_parens == Contains(tag, <<"_","(">>) /\ EndsWith(tag, <<")">>)
         IN IF is_vip \/ has_parens
            THEN ~EndsWithAny(tag, BAD_SUFFIXES)
            ELSE FALSE

\* lines 277-286: TRUE iff the loop body appends t to top_drivers
DriverAccepts(t, tag) ==
    IF t = tag \/ t \in SPECIFIC_BANS THEN FALSE
    ELSE LET is_vip == t \in VIPS
             has_parens == Contains(t, <<"_","(">>) /\ EndsWith(t, <<")">>)
         IN IF is_vip \/ has_parens
            THEN ~EndsWithAny(t, BAD_SUFFIXES)
            ELSE FALSE


(***************************************************************************)
(* Timestamps and the year range filter.                                   *)
(***************************************************************************)
\* the order of UTC instants (days of a month never exceed 31, hours 23)
Instant(ts) == ((ts.y * 12 + (ts.m - 1)) * 31 + (ts.d - 1)) * 24 + ts.h

\* a date-only string f"{year}-MM-DD" compared with a tz-aware column is parsed
\* to midnight UTC of that day
ParseDate(year, month, day) == [y |-> year, m |-> month, d |-> day, h |-> 0]

\* start_date, end_date: lines 121-122, 257-258
start_date(year) == ParseDate(year, 1, 1)

end_date(year) == ParseDate(year, 12, 31)

\* (df['created_at'] >= start_date) & (df['created_at'] <= end_date), one row
InYearRange(ts, year) ==
    /\ Instant(ts) >= Instant(start_date(year))
    /\ Instant(ts) <= Instant(end_date(year))

\* df.loc[mask]: the rows i of frame (ascending) whose mask[i] holds
RECURSIVE SelectFrom(_, _, _)
SelectFrom(frame, mask, i) ==
    IF i > Len(frame) THEN <<>>
    ELSE (IF mask[i] THEN <<i>> ELSE <<>>) \o SelectFrom(frame, mask, i + 1)

Loc(frame, mask) == SelectFrom(frame, mask, 1)

\* mask of lines 124-128 and 260-264; the result is the index of the subset
YearTagSubset(frame, year, tag) ==
    Loc(frame, [i \in 1..Len(frame) |->
                  /\ InYearRange(frame[i].created_at, year)
                  /\ StrContains(frame[i].tag_string, tag)])

\* mask of lines 168, 219, 223, 325
TagSubset(frame, tag) ==
    Loc(frame, [i \in 1..Len(frame) |-> StrContains(frame[i].tag_string, tag)])

\* YearInput(year=year) raises ValidationError, lines 58-62
YearInputFails(year) == ~(year >= YearMin /\ year <= YearMax)

(***************************************************************************)
(* Tag frequency table and the ranking loops.                              *)
(***************************************************************************)
\* subset['tag_string'].dropna()
RECURSIVE DropNa(_, _)
DropNa(frame, idx) ==
    IF idx = <<>> THEN <<>>
    ELSE (IF frame[Head(idx)].tag_string.na THEN <<>>
          ELSE <<frame[Head(idx)].tag_string.s>>) \o DropNa(frame, Tail(idx))

\* all_tags = " ".join(subset['tag_string'].dropna()).split(), lines 134, 269
AllTags(frame, idx) == Split(Join(DropNa(frame, idx)))

\* Counter(all_tags): the keys in first-encountered order, each with its count
Counter(tokens) ==
    LET firsts == Ascending({i \in 1..Len(tokens) :
                               \A j \in 1..(i - 1) : tokens[j] # tokens[i]})
    IN [k \in 1..Len(firsts) |->
          [tag |-> tokens[firsts[k]],
           count |-> Cardinality({i \in 1..Len(tokens) :
                                    tokens[i] = tokens[firsts[k]]})]]

\* most_common without the sort: the first n keys in first-encountered order
most_common_unsorted(counts, n) ==
    SubSeq(counts, 1, IF n < Len(counts) THEN n ELSE Len(counts))

\* counts.most_common(n): descending count, equal counts in first-encountered
\* order, the first n of them
RECURSIVE most_common(_, _)
most_common(counts, n) ==
    IF counts = <<>> \/ n = 0 THEN <<>>
    ELSE LET best == CHOOSE i \in 1..Len(counts) :
                        /\ \A j \in 1..Len(counts) : counts[j].count <= counts[i].count
                        /\ \A j \in 1..(i - 1) : counts[j].count < counts[i].count
             rest == [j \in 1..(Len(counts) - 1) |->
                        IF j < best THEN counts[j] ELSE counts[j + 1]]
         IN <<counts[best]>> \o most_common(rest, n - 1)

\* the loop of lines 137-148 over the remaining candidates
RECURSIVE TopScan(_, _)
TopScan(candidates, top_chars) ==
    IF candidates = <<>> THEN top_chars
    ELSE LET tag == Head(candidates).tag
         IN IF tag \in SPECIFIC_BANS THEN TopScan(Tail(candidates), top_chars)
            ELSE LET appended == IF TopAccepts(tag) THEN Append(top_chars, tag)
                                 ELSE top_chars
                 IN IF Len(appended) = TopK THEN appended
                    ELSE TopScan(Tail(candidates), appended)

\* the loop of lines 272-287; an entry is a tag t with its count
RECURSIVE DriverScan(_, _, _)
DriverScan(candidates, tag, top_drivers) ==
    IF candidates = <<>> THEN top_drivers
    ELSE LET t == Head(candidates).tag
         IN IF t = tag \/ t \in SPECIFIC_BANS
            THEN DriverScan(Tail(candidates), tag, top_drivers)
            ELSE LET appended == IF DriverAccepts(t, tag)
                                 THEN Append(top_drivers, Head(candidates))
                                 ELSE top_drivers
                 IN IF Len(appended) = DriverK THEN appended
                    ELSE DriverScan(Tail(candidates), tag, appended)

(***************************************************************************)
(* Time bucketing.  A month-end label is the month's index y * 12 + m - 1, *)
(* a year-end label the year.                                              *)
(***************************************************************************)
MonthOf(ts) == ts.y * 12 + (ts.m - 1)

SetMin(S) == CHOOSE x \in S : \A z \in S : x <= z

SetMax(S) == CHOOSE x \in S : \A z \in S : z <= x

\* subset.set_index('created_at').resample('ME').size(): one bin per month from
\* the earliest to the latest month present, empty months counted 0
ResampleMonthly(frame, idx) ==
    IF idx = <<>> THEN <<>>
    ELSE LET months == {MonthOf(frame[idx[i]].created_at) : i \in 1..Len(idx)}
             first == SetMin(months)
             last == SetMax(months)
         IN [k \in 1..(last - first + 1) |->
               [period |-> first + k - 1,
                count |-> Cardinality({i \in 1..Len(idx) :
                             MonthOf(frame[idx[i]].created_at) = first + k - 1})]]

RECURSIVE SumCounts(_)
SumCounts(series) ==
    IF series = <<>> THEN 0 ELSE Head(series).count + SumCounts(Tail(series))

\* ResampleYearly keeping only the months of the first year
ResampleYearlyFirst(monthly) ==
    IF monthly = <<>> THEN <<>>
    ELSE << [period |-> monthly[1].period \div 12,
             count |-> SumCounts(SelectSeq(monthly,
                          LAMBDA b : b.period \div 12 = monthly[1].period \div 12))] >>

\* series.resample('YE').sum() of a monthly series
ResampleYearly(monthly) ==
    IF monthly = <<>> THEN <<>>
    ELSE LET first == monthly[1].period \div 12
             last == monthly[Len(monthly)].period \div 12
         IN [k \in 1..(last - first + 1) |->
               [period |-> first + k - 1,
                count |-> SumCounts(SelectSeq(monthly,
                             LAMBDA b : b.period \div 12 = first + k - 1))]]

\* monthly.max()
SeriesMax(series) == SetMax({series[i].count : i \in 1..Len(series)})

\* monthly.idxmax(): the label of the first bin holding the maximum
IdxMax(series) ==
    series[SetMin({i \in 1..Len(series) : series[i].count = SeriesMax(series)})].period

(***************************************************************************)
(* matplotlib.pyplot: the process-wide stack of open figures, the last one *)
(* current.  A figure is the sequence of drawing commands applied to it.   *)
(***************************************************************************)
\* plt.figure(...): a new empty figure becomes the current one
PltFigure(open) == Append(open, <<>>)

\* plt.gcf(): the current figure, created when no figure is open
Gcf(open) == IF open = <<>> THEN <<<<>>>> ELSE open

\* plt.plot / plt.title / plt.xlabel / ... / sns.barplot: draw on the current figure
PltDraw(open, cmds) ==
    LET g == Gcf(open) IN [g EXCEPT ![Len(g)] = @ \o cmds]

\* what plt.savefig(path) writes: the current figure
PltSavefig(open) == Gcf(open)[Len(Gcf(open))]

\* plt.close(): the current figure is destroyed, the one before it becomes current
PltClose(open) == IF open = <<>> THEN open ELSE SubSeq(open, 1, Len(open) - 1)

\* one drawing command: its text argument and its data points
Cmd(name, text, data) == [cmd |-> name, text |-> text, data |-> data]

\* a data point: a position, a value and (for a bar) its label
Point(k, v, name) == [k |-> k, v |-> v, name |-> name]

\* the points of a time series
SeriesPoints(series) ==
    [i \in 1..Len(series) |-> Point(series[i].period, series[i].count, <<>>)]

NoChart == [saved |-> FALSE, path |-> [prefix |-> "", safe_tag |-> <<>>],
            content |-> <<>>]

(***************************************************************************)
(* The tools up to their first pyplot call.  Each yields the caller's next *)
(* position, its local variables and, when it returns, the returned value. *)
(***************************************************************************)
Frame(next, locals, value) == [pc |-> next, local |-> locals, result |-> value]

DatasetNotLoaded == [kind |-> "Error: Dataset not loaded."]

Raised(exc) == [kind |-> "raised", exc |-> exc]

\* a / b: the exact quotient, or ZeroDivisionError
TrueDiv(a, b) ==
    IF b = 0 THEN [raises |-> TRUE, num |-> 0, den |-> 0]
    ELSE [raises |-> FALSE, num |-> a, den |-> b]

\* get_top_waifus_by_year(year), lines 113-152
TopWaifusByYear(frame, year) ==
    IF frame = <<>> THEN Frame("return", NoLocals, DatasetNotLoaded)
    ELSE IF YearInputFails(year)
    THEN Frame("return", NoLocals, [kind |-> "Input Error: ", year |-> year])
    ELSE LET subset == YearTagSubset(frame, year, <<"1","g","i","r","l">>)
         IN IF subset = <<>>
            THEN Frame("return", [subset |-> subset],
                       [kind |-> "No data found for {year}.", year |-> year])
            ELSE LET counts == Counter(AllTags(frame, subset))
                     top_chars == TopScan(most_common(counts, TopScanCeiling), <<>>)
                     clean_names == [i \in 1..Len(top_chars) |-> CleanName(top_chars[i])]
                 IN Frame("return",
                          [subset |-> subset, counts |-> counts, top_chars |-> top_chars],
                          [kind |-> "Top 10 Waifus of {year}", year |-> year,
                           names |-> clean_names])

\* get_character_stats(character_tag), lines 166-178
CharacterStats(frame, character_tag) ==
    IF frame = <<>> THEN Frame("return", NoLocals, DatasetNotLoaded)
    ELSE LET subset == TagSubset(frame, character_tag)
         IN IF subset = <<>>
            THEN Frame("return", [subset |-> subset],
                       [kind |-> "No data found for tag: {character_tag}.",
                        tag |-> character_tag])
            ELSE LET monthly == ResampleMonthly(frame, subset)
                 IN IF monthly = <<>>   \* idxmax of an empty series: ValueError
                    THEN Frame("return", [subset |-> subset], Raised("ValueError"))
                    ELSE
                    Frame("figure",
                          [subset |-> subset, total |-> Len(subset), monthly |-> monthly,
                           peak_date |-> IdxMax(monthly), peak_count |-> SeriesMax(monthly)],
                          NoResult)

\* set(df.loc[mask].index)
IndexSet(idx) == {idx[i] : i \in 1..Len(idx)}

\* JointCount counting the second set instead of the intersection
JointCountSecond(set1, set2) == Cardinality(set2)

\* intersection = len(set1.intersection(set2)), line 226
JointCount(set1, set2) == Cardinality(set1 \cap set2)

\* ShipDependency without the test of line 221
ShipDependencyUnguarded(frame, char1, char2) ==
    IF frame = <<>> THEN Frame("return", NoLocals, DatasetNotLoaded)
    ELSE LET set1 == IndexSet(TagSubset(frame, char1))
             set2 == IndexSet(TagSubset(frame, char2))
             intersection == JointCount(set1, set2)
             percentage == TrueDiv(intersection * 100, Cardinality(set1))
         IN IF percentage.raises
            THEN Frame("return", [set1 |-> set1, set2 |-> set2],
                       Raised("ZeroDivisionError"))
            ELSE Frame("return",
                       [set1 |-> set1, set2 |-> set2,
                        intersection |-> intersection, percentage |-> percentage],
                       [kind |-> "Ship Analysis", char1 |-> char1, char2 |-> char2,
                        percentage |-> percentage, total |-> Cardinality(set1),
                        joint |-> intersection])

\* calculate_ship_dependency(char1, char2), lines 217-234
ShipDependency(frame, char1, char2) ==
    IF frame = <<>> THEN Frame("return", NoLocals, DatasetNotLoaded)
    ELSE LET set1 == IndexSet(TagSubset(frame, char1))
         IN IF set1 = {}
            THEN Frame("return", [set1 |-> set1],
                       [kind |-> "Character {char1} not found.", tag |-> char1])
            ELSE LET set2 == IndexSet(TagSubset(frame, char2))
                     intersection == JointCount(set1, set2)
                     percentage == TrueDiv(intersection * 100, Cardinality(set1))
                 IN IF percentage.raises
                    THEN Frame("return", [set1 |-> set1, set2 |-> set2],
                               Raised("ZeroDivisionError"))
                    ELSE Frame("return",
                               [set1 |-> set1, set2 |-> set2,
                                intersection |-> intersection, percentage |-> percentage],
                               [kind |-> "Ship Analysis", char1 |-> char1, char2 |-> char2,
                                percentage |-> percentage, total |-> Cardinality(set1),
                                joint |-> intersection])

\* analyze_tag_driver(year, tag), lines 249-287
TagDriver(frame, year, tag) ==
    IF frame = <<>> THEN Frame("return", NoLocals, DatasetNotLoaded)
    ELSE IF YearInputFails(year)
    THEN Frame("return", NoLocals, [kind |-> "Error: Year must be between 2005 and 2025."])
    ELSE LET subset == YearTagSubset(frame, year, tag)
         IN IF subset = <<>>
            THEN Frame("return", [subset |-> subset],
                       [kind |-> "No data found for tag '{tag}' in {year}.",
                        tag |-> tag, year |-> year])
            ELSE LET counts == Counter(AllTags(frame, subset))
                     top_drivers ==
                         DriverScan(most_common(counts, DriverScanCeiling), tag, <<>>)
                 IN Frame("figure",
                          [subset |-> subset, counts |-> counts,
                           top_drivers |-> top_drivers,
                           plot_labels |-> [i \in 1..Len(top_drivers) |->
                                              FmtName(top_drivers[i].tag)],
                           plot_values |-> [i \in 1..Len(top_drivers) |->
                                              top_drivers[i].count]],
                          NoResult)

\* get_stats(tag) of compare_characters, lines 324-328: (None, None), or the
\* total and the monthly series
get_stats(frame, tag) ==
    LET subset == TagSubset(frame, tag)
    IN IF subset = <<>> THEN [none |-> TRUE, total |-> 0, series |-> <<>>]
       ELSE [none |-> FALSE, total |-> Len(subset),
             series |-> ResampleMonthly(frame, subset)]

\* Compare without the test of line 334
CompareSecondUnchecked(frame, char1, char2) ==
    IF frame = <<>> THEN Frame("return", NoLocals, DatasetNotLoaded)
    ELSE LET s1 == get_stats(frame, char1)
             s2 == get_stats(frame, char2)
             locals == [stats1 |-> s1, stats2 |-> s2]
         IN IF s1.none
            THEN Frame("return", locals, [kind |-> "{char} not found", tag |-> char1])
            ELSE Frame("figure", locals, NoResult)

\* compare_characters(char1, char2), lines 322-334
Compare(frame, char1, char2) ==
    IF frame = <<>> THEN Frame("return", NoLocals, DatasetNotLoaded)
    ELSE LET s1 == get_stats(frame, char1)
             s2 == get_stats(frame, char2)
             locals == [stats1 |-> s1, stats2 |-> s2]
         IN IF s1.none
            THEN Frame("return", locals, [kind |-> "{char} not found", tag |-> char1])
            ELSE IF s2.none
            THEN Frame("return", locals, [kind |-> "{char} not found", tag |-> char2])
            ELSE Frame("figure", locals, NoResult)

(***************************************************************************)
(* The tools from their first pyplot call on.  c is the caller's call      *)
(* (tool and arguments), l its local variables.                            *)
(***************************************************************************)
\* lines 339-340: the local variables added between plt.figure and plt.plot
DrawLocals(c, l) ==
    IF c.op = "compare_characters"
    THEN [stats1 |-> l.stats1, stats2 |-> l.stats2,
          y1_plot |-> ResampleYearly(l.stats1.series),
          y2_plot |-> ResampleYearly(l.stats2.series)]
    ELSE l

\* lines 182-186, 291-293, 342-346: what the tool draws on the current figure
DrawCmds(c, l) ==
    CASE c.op = "get_character_stats" ->
           << Cmd("plot", <<>>, SeriesPoints(l.monthly)),
              Cmd("title", <<"P","o","p","u","l","a","r","i","t","y"," ","H","i","s","t","o","r","y",":"," ">> \o c.tag, <<>>),
              Cmd("xlabel", <<"Y","e","a","r">>, <<>>),
              Cmd("ylabel", <<"U","p","l","o","a","d","s"," ","p","e","r"," ","M","o","n","t","h">>, <<>>),
              Cmd("grid", <<>>, <<>>) >>
      [] c.op = "analyze_tag_driver" ->
           << Cmd("barplot", <<>>,
                  [i \in 1..Len(l.plot_values) |->
                     Point(i, l.plot_values[i], l.plot_labels[i])]),
              Cmd("title", <<"T","o","p"," ","C","h","a","r","a","c","t","e","r","s"," ","D","r","i","v","i","n","g"," ","'">> \o c.tag \o <<"'"," ","i","n"," ">>
                           \o DecStr(c.year), <<>>),
              Cmd("xlabel", <<"N","u","m","b","e","r"," ","o","f"," ","C","o","-","o","c","c","u","r","r","e","n","c","e","s">>, <<>>) >>
      [] c.op = "compare_characters" ->
           << Cmd("plot", c.char1, SeriesPoints(DrawLocals(c, l).y1_plot)),
              Cmd("plot", c.char2, SeriesPoints(DrawLocals(c, l).y2_plot)),
              Cmd("legend", <<>>, <<>>),
              Cmd("title", <<"H","e","a","d","-","t","o","-","H","e","a","d",":"," ">> \o c.char1 \o <<" ","v","s"," ">> \o c.char2, <<>>),
              Cmd("grid", <<>>, <<>>) >>

\* save_path, lines 189, 295, 348
SavePath(c) ==
    CASE c.op = "get_character_stats" -> get_safe_filename(c.tag, "popularity")
      [] c.op = "analyze_tag_driver" ->
           get_safe_filename(DecStr(c.year) \o <<"_">> \o c.tag, "drivers")
      [] c.op = "compare_characters" ->
           get_safe_filename(c.char1 \o <<"_","v","s","_">> \o c.char2, "compare")

\* Winner with the comparison reversed
WinnerReversed(char1, total1, char2, total2) == IF total1 < total2 THEN char1 ELSE char2

\* winner = char1 if total1 > total2 else char2, line 352
Winner(char1, total1, char2, total2) == IF total1 > total2 THEN char1 ELSE char2

\* lines 193-202, 299-307, 352-361: the value returned after plt.close()
Returned(c, l, frame) ==
    CASE c.op = "get_character_stats" ->
           [kind |-> "Stats for '{character_tag}'", tag |-> c.tag, total |-> l.total,
            peak_date |-> l.peak_date, peak_count |-> l.peak_count,
            status |-> IF l.monthly[Len(l.monthly)].count > ActiveThreshold
                       THEN "Still Active" ELSE "Declining",
            save_path |-> SavePath(c)]
      [] c.op = "analyze_tag_driver" ->
           [kind |-> "Analysis of '{tag}' in {year}", tag |-> c.tag, year |-> c.year,
            total |-> Len(l.subset),
            drivers |-> [i \in 1..Len(l.top_drivers) |->
                           CleanName(l.top_drivers[i].tag \o <<" ","(">>
                                     \o DecStr(l.top_drivers[i].count) \o <<")">>)],
            save_path |-> SavePath(c)]
      [] c.op = "compare_characters" ->
           [kind |-> "{char1} vs {char2}", char1 |-> c.char1, char2 |-> c.char2,
            total1 |-> l.stats1.total, total2 |-> l.stats2.total,
            winner |-> Winner(c.char1, l.stats1.total, c.char2, l.stats2.total),
            save_path |-> SavePath(c)]

(***************************************************************************)
(* The loaded data and the requests.                                       *)
(***************************************************************************)
Rec(y, m, d, h, cell) ==
    [created_at |-> [y |-> y, m |-> m, d |-> d, h |-> h], tag_string |-> cell]

RecordPool ==
    { Rec(2016, 6, 15, 12, Str(<<"1","g","i","r","l"," ","c","i","r","n","o"," ","r","e","m","_","(","r","z",")"," ","f","a","t","e","_","(","s","e","r","i","e","s",")">>)),
      Rec(2016, 12, 31, 12, Str(<<"1","g","i","r","l"," ","r","e","m","_","(","r","z",")"," ","h","e","a","r","t">>)),
      Rec(2017, 1, 1, 0, Str(<<"c","i","r","n","o"," ","s","t","a","r","_","(","s","k","y",")"," ","r","e","m","_","(","r","z",")">>)),
      Rec(2016, 3, 1, 0, NA),
      Rec(2016, 1, 1, 0,
          Str(<<"1","g","i","r","l"," ","a","_","(","x",")"," ","b","_","(","x",")"," ","c","_","(","x",")"," ","d","_","(","x",")"," ","e","_","(","x",")"," ","f","_","(","x",")"," ","g","_","(","x",")"," ","h","_","(","x",")"," ","i","_","(","x",")"," ","j","_","(","x",")"," ","k","_","(","x",")"," ","c","i","r","n","o">>)) }

\* the frames read_parquet can yield; the empty one is also the frame of a failed load
Datasets == UNION {[1..n -> RecordPool] : n \in 0..MaxRecords}

QueryYears == {2004, 2005, 2016, 2017, 2025, 2026}

QueryTags == { <<>>, <<"r">>, <<"c","i","r","n","o">>, <<"r","e","m","_","(","r","z",")">>, <<"1","g","i","r","l">>, <<"g","h","o","s","t","_","t","a","g">> }

Callers == 1..MaxCallers

NoCall == [op |-> "none"]

Running(p) == pc[p] # "idle"

(***************************************************************************)
(* Actions: a tool is entered by an idle caller and runs to its first      *)
(* pyplot call or to its return statement; each pyplot call is a step of   *)
(* its own, and so is the return.                                          *)
(***************************************************************************)
Enter(p, c, f) ==
    /\ pc' = [pc EXCEPT ![p] = f.pc]
    /\ call' = [call EXCEPT ![p] = c]
    /\ local' = [local EXCEPT ![p] = f.local]
    /\ result' = [result EXCEPT ![p] = f.result]
    /\ UNCHANGED <<df, figs, written, probe, verdict>>

get_top_waifus_by_year(p, years) ==
    /\ pc[p] = "idle"
    /\ \E year \in years :
           Enter(p, [op |-> "get_top_waifus_by_year", year |-> year],
                 TopWaifusByYear(df, year))

get_character_stats(p, tags) ==
    /\ pc[p] = "idle"
    /\ \E character_tag \in tags :
           Enter(p, [op |-> "get_character_stats", tag |-> character_tag],
                 CharacterStats(df, character_tag))

calculate_ship_dependency(p, tags) ==
    /\ pc[p] = "idle"
    /\ \E char1 \in tags, char2 \in tags :
           Enter(p, [op |-> "calculate_ship_dependency", char1 |-> char1, char2 |-> char2],
                 ShipDependency(df, char1, char2))

analyze_tag_driver(p, years, tags) ==
    /\ pc[p] = "idle"
    /\ \E year \in years, tag \in tags :
           Enter(p, [op |-> "analyze_tag_driver", year |-> year, tag |-> tag],
                 TagDriver(df, year, tag))

compare_characters(p, tags) ==
    /\ pc[p] = "idle"
    /\ \E char1 \in tags, char2 \in tags :
           Enter(p, [op |-> "compare_characters", char1 |-> char1, char2 |-> char2],
                 Compare(df, char1, char2))

\* plt.figure(figsize=...)
Figure(p) ==
    /\ pc[p] = "figure"
    /\ figs' = PltFigure(figs)
    /\ pc' = [pc EXCEPT ![p] = "draw"]
    /\ UNCHANGED <<df, call, local, result, written, probe, verdict>>

\* plt.plot ... plt.grid, sns.barplot ... plt.xlabel
Draw(p) ==
    /\ pc[p] = "draw"
    /\ local' = [local EXCEPT ![p] = DrawLocals(call[p], local[p])]
    /\ figs' = PltDraw(figs, DrawCmds(call[p], local[p]))
    /\ pc' = [pc EXCEPT ![p] = "savefig"]
    /\ UNCHANGED <<df, call, result, written, probe, verdict>>

\* plt.savefig(save_path)
Savefig(p) ==
    /\ pc[p] = "savefig"
    /\ written' = [written EXCEPT ![p] =
                     [saved |-> TRUE, path |-> SavePath(call[p]),
                      content |-> PltSavefig(figs)]]
    /\ figs' = Gcf(figs)
    /\ pc' = [pc EXCEPT ![p] = "close"]
    /\ UNCHANGED <<df, call, local, result, probe, verdict>>

\* plt.close() and the rest of the tool, to its return
Close(p) ==
    /\ pc[p] = "close"
    /\ figs' = PltClose(figs)
    /\ result' = [result EXCEPT ![p] = Returned(call[p], local[p], df)]
    /\ pc' = [pc EXCEPT ![p] = "return"]
    /\ UNCHANGED <<df, call, local, written, probe, verdict>>

\* return: the value leaves the tool, its local variables are dropped
Return(p) ==
    /\ pc[p] = "return"
    /\ pc' = [pc EXCEPT ![p] = "idle"]
    /\ call' = [call EXCEPT ![p] = NoCall]
    /\ local' = [local EXCEPT ![p] = NoLocals]
    /\ result' = [result EXCEPT ![p] = NoResult]
    /\ written' = [written EXCEPT ![p] = NoChart]
    /\ UNCHANGED <<df, figs, probe, verdict>>

NoVerdict == [top |-> "unset", driver |-> "unset", trait |-> <<>>]

Init ==
    /\ df \in Datasets
    /\ figs = <<>>
    /\ pc = [p \in Callers |-> "idle"]
    /\ call = [p \in Callers |-> NoCall]
    /\ local = [p \in Callers |-> NoLocals]
    /\ result = [p \in Callers |-> NoResult]
    /\ written = [p \in Callers |-> NoChart]
    /\ probe = <<>>
    /\ verdict = NoVerdict

\* The tools are plain functions, which the server runs one at a time: one caller.
Next ==
    \E p \in {1} :
        \/ get_top_waifus_by_year(p, QueryYears)
        \/ get_character_stats(p, QueryTags)
        \/ calculate_ship_dependency(p, QueryTags)
        \/ analyze_tag_driver(p, QueryYears, QueryTags)
        \/ compare_characters(p, QueryTags)
        \/ Figure(p)
        \/ Draw(p)
        \/ Savefig(p)
        \/ Close(p)
        \/ Return(p)

Spec == Init /\ [][Next]_vars

(***************************************************************************)
(* Concurrent callers: the tools take no lock, so threads running them     *)
(* interleave at every pyplot call.  Each caller makes one request and     *)
(* keeps the value returned to it.                                         *)
(***************************************************************************)
ConcDatasets == UNION {[1..n -> RecordPool] : n \in 0..1}

ConcYears == {2016}

ConcTags == { <<"c","i","r","n","o">>, <<"r","e","m","_","(","r","z",")">> }

InitConc ==
    /\ df \in ConcDatasets
    /\ figs = <<>>
    /\ pc = [p \in Callers |-> "idle"]
    /\ call = [p \in Callers |-> NoCall]
    /\ local = [p \in Callers |-> NoLocals]
    /\ result = [p \in Callers |-> NoResult]
    /\ written = [p \in Callers |-> NoChart]
    /\ probe = <<>>
    /\ verdict = NoVerdict

NextConc ==
    \E p \in Callers :
        \/ get_top_waifus_by_year(p, ConcYears)
        \/ get_character_stats(p, ConcTags)
        \/ calculate_ship_dependency(p, ConcTags)
        \/ analyze_tag_driver(p, ConcYears, ConcTags)
        \/ compare_characters(p, ConcTags)
        \/ Figure(p)
        \/ Draw(p)
        \/ Savefig(p)
        \/ Close(p)

SpecConc == InitConc /\ [][NextConc]_vars

(***************************************************************************)
(* The classifier alone: each ranking loop run over one candidate tag.     *)
(***************************************************************************)
Alphabet == {"a", "_", "(", ")"}

ShortTags == UNION {[1..n -> Alphabet] : n \in 0..ProbeLen}

Names == VIPS \cup { <<>>, <<"a">>, <<"r","e","m">> }

TagUniverse ==
    ShortTags \cup SPECIFIC_BANS \cup VIPS \cup BAD_SUFFIXES
    \cup {n \o x : n \in Names, x \in BAD_SUFFIXES}
    \cup {n \o <<"_","(","x",")">> : n \in Names}
    \cup {b \o x : b \in { <<"c","o","m","i","c">>, <<"s","t","a","r","_","(","s","k","y",")">> }, x \in BAD_SUFFIXES}
    \cup { <<"1","g","i","r","l">>, <<"r","e","m","_","(","r","z",")">>, <<"r","e","m","_","(","r","e",":","z","e","r","o",")">>, <<"c","i","r","n","o"," ">>, <<"C","i","r","n","o">> }

Verdict(appended) == IF appended = <<>> THEN "reject" ELSE "accept"

\* the loop of get_top_waifus_by_year over the single candidate probe
ClassifyTop ==
    /\ verdict.top = "unset"
    /\ verdict' = [verdict EXCEPT
                     !.top = Verdict(TopScan(<<[tag |-> probe, count |-> 1]>>, <<>>))]
    /\ UNCHANGED <<df, figs, pc, call, local, result, written, probe>>

\* the loop of analyze_tag_driver over the single candidate probe
ClassifyDriver ==
    /\ verdict.driver = "unset"
    /\ \E tag \in QueryTags \cup {probe} :
          verdict' = [verdict EXCEPT
                        !.driver = Verdict(DriverScan(<<[tag |-> probe, count |-> 1]>>,
                                                      tag, <<>>)),
                        !.trait = tag]
    /\ UNCHANGED <<df, figs, pc, call, local, result, written, probe>>

InitClassifier ==
    /\ df = <<>>
    /\ figs = <<>>
    /\ pc = [p \in Callers |-> "idle"]
    /\ call = [p \in Callers |-> NoCall]
    /\ local = [p \in Callers |-> NoLocals]
    /\ result = [p \in Callers |-> NoResult]
    /\ written = [p \in Callers |-> NoChart]
    /\ probe \in TagUniverse
    /\ verdict = NoVerdict

NextClassifier == ClassifyTop \/ ClassifyDriver

SpecClassifier == InitClassifier /\ [][NextClassifier]_vars

(***************************************************************************)
(* Properties.  What a claim speaks of is computed here from df and the    *)
(* request, apart from the tools' own operators where possible.            *)
(***************************************************************************)
\* the ordered decision procedure of the entity classifier (deny, VIP or shape, suffix)
EntityClassifier(tag) ==
    LET isVip == tag \in VIPS
        hasEntityShape == Contains(tag, <<"_","(">>) /\ EndsWith(tag, <<")">>)
    IN IF tag \in SPECIFIC_BANS THEN FALSE
       ELSE IF ~isVip /\ ~hasEntityShape THEN FALSE
       ELSE IF EndsWithAny(tag, BAD_SUFFIXES) /\ ~(isVip /\ ~hasEntityShape) THEN FALSE
       ELSE TRUE

\* the rows of df whose tag text contains tag
MatchSet(tag) == {i \in 1..Len(df) : StrContains(df[i].tag_string, tag)}

\* the rows of df created in calendar year year whose tag text contains tag
YearMatchSet(year, tag) ==
    {i \in 1..Len(df) : df[i].created_at.y = year /\ StrContains(df[i].tag_string, tag)}

AtReturn(p, op) == pc[p] = "return" /\ call[p].op = op

Has(p, name) == name \in DOMAIN local[p]

CountIn(table, t) == table[CHOOSE j \in 1..Len(table) : table[j].tag = t].count

InSeq(L, t) == \E i \in 1..Len(L) : L[i] = t

PosIn(L, t) == CHOOSE i \in 1..Len(L) : L[i] = t

Ranking(L, table, k, excluded) ==
    /\ Len(L) <= k
    /\ \A i, j \in 1..Len(L) : i # j => L[i] # L[j]
    /\ \A i \in 1..Len(L) :
          /\ EntityClassifier(L[i])
          /\ L[i] \notin excluded
          /\ \E j \in 1..Len(table) : table[j].tag = L[i]
    /\ \A i, j \in 1..Len(L) : i < j => CountIn(table, L[i]) >= CountIn(table, L[j])
    /\ \A a, b \in 1..Len(table) :
          ( /\ EntityClassifier(table[a].tag) /\ table[a].tag \notin excluded
            /\ EntityClassifier(table[b].tag) /\ table[b].tag \notin excluded
            /\ table[a].count > table[b].count
            /\ InSeq(L, table[b].tag) )
          => /\ InSeq(L, table[a].tag)
             /\ PosIn(L, table[a].tag) < PosIn(L, table[b].tag)

DriverTags(p) == [i \in 1..Len(local[p].top_drivers) |-> local[p].top_drivers[i].tag]

\* C1: the ranked list of TopEntitiesByYear (k = 10) and of TrendDrivers (k = 5)
\* has at most k entries, all distinct, all accepted by the entity classifier and
\* none excluded, in descending order of their counts in the frequency table; a
\* qualifying tag with a larger count is ranked above one with a smaller count.
C1_TopEntitiesRanked ==
    \A p \in Callers :
        /\ (call[p].op = "get_top_waifus_by_year" /\ Has(p, "top_chars"))
              => Ranking(local[p].top_chars, local[p].counts, TopK, {})
        /\ (call[p].op = "analyze_tag_driver" /\ Has(p, "top_drivers"))
              => /\ Ranking(DriverTags(p), local[p].counts, DriverK, {call[p].tag})
                 /\ \A i \in 1..Len(local[p].top_drivers) :
                       local[p].top_drivers[i].count
                          = CountIn(local[p].counts, local[p].top_drivers[i].tag)

\* a full top-10 list with unequal counts that leaves a qualifying tag out
C1_Witness ==
    \E p \in Callers :
        /\ AtReturn(p, "get_top_waifus_by_year") /\ Has(p, "top_chars")
        /\ Len(local[p].top_chars) = TopK
        /\ CountIn(local[p].counts, local[p].top_chars[1])
              > CountIn(local[p].counts, local[p].top_chars[TopK])
        /\ \E j \in 1..Len(local[p].counts) :
              /\ EntityClassifier(local[p].counts[j].tag)
              /\ ~InSeq(local[p].top_chars, local[p].counts[j].tag)

\* C2: the subset analysed by TopEntitiesByYear(year) and TrendDrivers(year, trait)
\* is exactly the records of calendar year year, whatever their time of day,
\* whose tag text contains the co-tag or the trait.
C2_YearSubsetExact ==
    \A p \in Callers :
        /\ (call[p].op = "get_top_waifus_by_year" /\ Has(p, "subset"))
              => IndexSet(local[p].subset) = YearMatchSet(call[p].year, <<"1","g","i","r","l">>)
        /\ (call[p].op = "analyze_tag_driver" /\ Has(p, "subset"))
              => IndexSet(local[p].subset) = YearMatchSet(call[p].year, call[p].tag)

ClassifierRules(tag, accepted) ==
    /\ accepted = EntityClassifier(tag)
    /\ tag \in SPECIFIC_BANS => ~accepted
    /\ (tag \in VIPS /\ ~Contains(tag, <<"(">>) /\ tag \notin SPECIFIC_BANS) => accepted
    /\ ( /\ Contains(tag, <<"_","(">>)
         /\ EndsWithAny(tag, BAD_SUFFIXES)
         /\ tag \notin VIPS ) => ~accepted
    /\ (tag \notin VIPS /\ ~(Contains(tag, <<"_","(">>) /\ EndsWith(tag, <<")">>))) => ~accepted

\* C3: each ranking loop accepts a tag exactly when the ordered decision procedure
\* does: a banned tag never; a VIP without parenthetical unless banned; a tag with
\* a banned suffix never unless VIP; a tag neither VIP nor of entity shape never.
\* The two loops agree on every tag other than the driver loop's own trait.
C3_ClassifierAgrees ==
    /\ verdict.top # "unset" => ClassifierRules(probe, verdict.top = "accept")
    /\ (verdict.driver # "unset" /\ probe # verdict.trait)
          => ClassifierRules(probe, verdict.driver = "accept")
    /\ (verdict.top # "unset" /\ verdict.driver # "unset" /\ probe # verdict.trait)
          => verdict.top = verdict.driver

\* both loops have accepted a VIP without parenthetical
C3_Witness ==
    /\ probe \in VIPS
    /\ verdict.top = "accept"
    /\ verdict.driver = "accept"

\* C4: when A's base set is not empty CoOccurrence(A, B) succeeds with
\* baseEntityTotal the number of records matching A, jointCount the number matching
\* both, 0 <= jointCount <= baseEntityTotal, percentage = 100 * jointCount /
\* baseEntityTotal within [0, 100], and CoOccurrence(A, A) gives 100 percent.
C4_CoOccurrence ==
    \A p \in Callers :
        (AtReturn(p, "calculate_ship_dependency") /\ MatchSet(call[p].char1) # {})
        => LET r == result[p]
               base == Cardinality(MatchSet(call[p].char1))
               both == Cardinality({i \in 1..Len(df) :
                                      /\ StrContains(df[i].tag_string, call[p].char1)
                                      /\ StrContains(df[i].tag_string, call[p].char2)})
           IN /\ r.kind = "Ship Analysis"
              /\ r.total = base
              /\ r.joint = both
              /\ 0 <= r.joint /\ r.joint <= r.total
              /\ r.percentage.den > 0
              /\ r.percentage.num * base = 100 * both * r.percentage.den
              /\ 0 <= r.percentage.num /\ r.percentage.num <= 100 * r.percentage.den
              /\ call[p].char1 = call[p].char2
                    => r.joint = r.total /\ r.percentage.num = 100 * r.percentage.den

\* some but not all of A's records also match B
C4_Witness ==
    \E p \in Callers :
        /\ AtReturn(p, "calculate_ship_dependency")
        /\ result[p].kind = "Ship Analysis"
        /\ 0 < result[p].joint /\ result[p].joint < result[p].total

\* C5: Compare(A, B) with both found names as winner the entity with the strictly
\* greater total; with equal totals the second argument.
C5_CompareWinner ==
    \A p \in Callers :
        (AtReturn(p, "compare_characters") /\ result[p].kind = "{char1} vs {char2}")
        => LET totalA == Cardinality(MatchSet(call[p].char1))
               totalB == Cardinality(MatchSet(call[p].char2))
           IN /\ result[p].total1 = totalA /\ result[p].total2 = totalB
              /\ totalA > totalB => result[p].winner = call[p].char1
              /\ totalB > totalA => result[p].winner = call[p].char2
              /\ totalA = totalB => result[p].winner = call[p].char2

\* the first entity has strictly more records than the second
C5_Witness ==
    \E p \in Callers :
        /\ AtReturn(p, "compare_characters")
        /\ result[p].kind = "{char1} vs {char2}"
        /\ call[p].char1 # call[p].char2
        /\ result[p].total1 > result[p].total2
        /\ result[p].winner = call[p].char1

\* C6: Compare(A, B) on a loaded Dataset fails as a whole when either entity matches
\* no record: it returns not-found naming A when A is missing and B otherwise, with
\* no totals and no winner, having opened no figure and written no chart; it plots
\* and succeeds only when both entities match.
C6_CompareAllOrNothing ==
    \A p \in Callers :
        (call[p].op = "compare_characters" /\ df # <<>>)
        => LET missingA == MatchSet(call[p].char1) = {}
               missingB == MatchSet(call[p].char2) = {}
           IN /\ (pc[p] = "return" /\ (missingA \/ missingB))
                    => /\ result[p] = [kind |-> "{char} not found",
                                       tag |-> IF missingA THEN call[p].char1
                                               ELSE call[p].char2]
                       /\ ~written[p].saved
                       /\ figs = <<>>
              /\ pc[p] \in {"figure", "draw", "savefig", "close"}
                    => ~missingA /\ ~missingB
              /\ (pc[p] = "return" /\ ~missingA /\ ~missingB)
                    => /\ result[p].kind = "{char1} vs {char2}"
                       /\ written[p].saved

\* the first entity is found, the second is not
C6_Witness ==
    \E p \in Callers :
        /\ AtReturn(p, "compare_characters")
        /\ MatchSet(call[p].char1) # {}
        /\ MatchSet(call[p].char2) = {}
        /\ result[p].kind = "{char} not found"

FailureKinds ==
    { "Error: Dataset not loaded.", "Input Error: ",
      "Error: Year must be between 2005 and 2025.", "No data found for {year}.",
      "No data found for tag: {character_tag}.", "Character {char1} not found.",
      "No data found for tag '{tag}' in {year}.", "{char} not found" }

SuccessKinds ==
    { "Top 10 Waifus of {year}", "Stats for '{character_tag}'", "Ship Analysis",
      "Analysis of '{tag}' in {year}", "{char1} vs {char2}" }

\* C7: every query returns a reported outcome and never raises.  With an empty
\* Dataset the outcome is DatasetUnavailable whatever the request; with a loaded
\* one it never is, a valid year in which no record carries the co-tag or trait
\* yields NoDataInRange, and an entity matching no record yields not-found
\* (EntityStats without time series or chart, CoOccurrence without dividing): each
\* failure has its own outcome, none of them a success.
C7_FailuresReported ==
    \A p \in Callers :
        pc[p] = "return"
        => LET c == call[p]
               r == result[p]
           IN /\ r.kind # "raised"
              /\ r.kind \in FailureKinds \cup SuccessKinds
              /\ df = <<>> <=> r = DatasetNotLoaded
              /\ (df # <<>> /\ c.op = "get_top_waifus_by_year" /\ ~YearInputFails(c.year))
                    => /\ YearMatchSet(c.year, <<"1","g","i","r","l">>) = {}
                          => r = [kind |-> "No data found for {year}.", year |-> c.year]
                       /\ r.kind \in SuccessKinds => YearMatchSet(c.year, <<"1","g","i","r","l">>) # {}
              /\ (df # <<>> /\ c.op = "analyze_tag_driver" /\ ~YearInputFails(c.year))
                    => /\ YearMatchSet(c.year, c.tag) = {}
                          => r = [kind |-> "No data found for tag '{tag}' in {year}.",
                                  tag |-> c.tag, year |-> c.year]
                       /\ r.kind \in SuccessKinds => YearMatchSet(c.year, c.tag) # {}
              /\ (df # <<>> /\ c.op = "get_character_stats")
                    => /\ MatchSet(c.tag) = {}
                          <=> r = [kind |-> "No data found for tag: {character_tag}.",
                                   tag |-> c.tag]
                       /\ MatchSet(c.tag) = {}
                          => ~Has(p, "monthly") /\ ~written[p].saved /\ figs = <<>>
                       /\ MatchSet(c.tag) # {} => r.kind \in SuccessKinds
              /\ (df # <<>> /\ c.op = "calculate_ship_dependency")
                    => /\ MatchSet(c.char1) = {}
                          <=> r = [kind |-> "Character {char1} not found.",
                                   tag |-> c.char1]
                       /\ MatchSet(c.char1) = {} => ~Has(p, "percentage")
                       /\ MatchSet(c.char1) # {} => r.kind \in SuccessKinds
              /\ (df # <<>> /\ c.op = "compare_characters")
                    => (MatchSet(c.char1) = {} \/ MatchSet(c.char2) = {})
                          <=> r.kind = "{char} not found"
              /\ FailureKinds \cap SuccessKinds = {}

\* CoOccurrence on a loaded Dataset whose base entity matches no record
C7_Witness ==
    \E p \in Callers :
        /\ AtReturn(p, "calculate_ship_dependency")
        /\ df # <<>>
        /\ MatchSet(call[p].char1) = {}
        /\ result[p].kind = "Character {char1} not found."

InvalidInput(c) ==
    \/ c.op \in {"get_top_waifus_by_year", "analyze_tag_driver"} /\ YearInputFails(c.year)
    \/ c.op \in {"get_character_stats", "analyze_tag_driver"} /\ Len(c.tag) < TagMinLength
    \/ /\ c.op \in {"calculate_ship_dependency", "compare_characters"}
       /\ (Len(c.char1) < TagMinLength \/ Len(c.char2) < TagMinLength)

\* C8: on a loaded Dataset a year outside 2005..2025, or a tag shorter than two
\* characters, is answered with an input error and nothing is computed from it.
C8_InvalidInputRejected ==
    \A p \in Callers :
        (df # <<>> /\ call[p].op # "none" /\ InvalidInput(call[p]))
        => /\ pc[p] = "return"
           /\ result[p].kind \in {"Input Error: ",
                                  "Error: Year must be between 2005 and 2025."}
           /\ local[p] = NoLocals

\* the calendar period of a timestamp: its month, or its year
PeriodOf(ts, unit) == IF unit = "month" THEN ts.y * 12 + (ts.m - 1) ELSE ts.y

StrictlyAscending(series) ==
    \A i \in 1..(Len(series) - 1) : series[i].period < series[i + 1].period

\* the series is not empty, its periods ascend strictly, every row of rows falls
\* in one of its buckets and the counts add up to the number of rows
Buckets(series, rows, unit) ==
    /\ series # <<>>
    /\ StrictlyAscending(series)
    /\ \A i \in rows : \E b \in 1..Len(series) :
          series[b].period = PeriodOf(df[i].created_at, unit)
    /\ SumCounts(series) = Cardinality(rows)

\* C9: the monthly series of EntityStats and Compare, and the yearly series Compare
\* makes of it, have strictly ascending periods without duplicates and counts
\* that add up to the number of records bucketed.
C9_BucketsAscendingAndComplete ==
    \A p \in Callers :
        /\ (call[p].op = "get_character_stats" /\ Has(p, "monthly"))
              => Buckets(local[p].monthly, MatchSet(call[p].tag), "month")
        /\ (call[p].op = "compare_characters" /\ Has(p, "stats1")
               /\ ~local[p].stats1.none)
              => Buckets(local[p].stats1.series, MatchSet(call[p].char1), "month")
        /\ (call[p].op = "compare_characters" /\ Has(p, "stats2")
               /\ ~local[p].stats2.none)
              => Buckets(local[p].stats2.series, MatchSet(call[p].char2), "month")
        /\ (call[p].op = "compare_characters" /\ Has(p, "y1_plot"))
              => /\ Buckets(local[p].y1_plot, MatchSet(call[p].char1), "year")
                 /\ Buckets(local[p].y2_plot, MatchSet(call[p].char2), "year")

\* Compare has re-bucketed a monthly series with empty months that spans two years
C9_Witness ==
    \E p \in Callers :
        /\ call[p].op = "compare_characters" /\ Has(p, "y1_plot")
        /\ Len(local[p].y1_plot) >= 2
        /\ \E b \in 1..Len(local[p].stats1.series) : local[p].stats1.series[b].count = 0

\* the tool of call c run on frame
Tool(frame, c) ==
    CASE c.op = "get_top_waifus_by_year" -> TopWaifusByYear(frame, c.year)
      [] c.op = "get_character_stats" -> CharacterStats(frame, c.tag)
      [] c.op = "calculate_ship_dependency" -> ShipDependency(frame, c.char1, c.char2)
      [] c.op = "analyze_tag_driver" -> TagDriver(frame, c.year, c.tag)
      [] c.op = "compare_characters" -> Compare(frame, c.char1, c.char2)

\* what call c returns and saves when no other query runs beside it
Alone(c) ==
    LET f == Tool(df, c)
    IN IF f.pc = "return" THEN [result |-> f.result, chart |-> <<>>]
       ELSE [result |-> Returned(c, DrawLocals(c, f.local), df),
             chart |-> PltSavefig(PltDraw(PltFigure(<<>>), DrawCmds(c, f.local)))]

\* C10: under any interleaving of concurrent queries each query returns the value
\* and saves the chart it returns and saves when it runs alone, and every figure
\* a query has opened is closed again when all queries have returned.
C10_ConcurrentQueriesIsolated ==
    /\ \A p \in Callers :
          /\ pc[p] = "return" => result[p] = Alone(call[p]).result
          /\ written[p].saved => written[p].content = Alone(call[p]).chart
    /\ (\A p \in Callers : pc[p] \in {"idle", "return"}) => figs = <<>>

=============================================================================
